---- MODULE Spec2Model ----
(***************************************************************************)
(* spacq/gui/action/data_capture.py: the capture panel (DataCapturePanel), *)
(* its export pipeline (flush, data_callback, close_callback) and the      *)
(* sweep dialog (DataCaptureDialog) driving a SweepController.             *)
(*                                                                         *)
(* Three threads act on one launched run: the GUI thread (OnBeginCapture,  *)
(* OnCancel, OnTimer, the answers to the 'Abort processing?' prompt and    *)
(* the wx.CallAfter queue), the run thread (SweepController.run, started   *)
(* by start) and the thread the 'abort' answer starts.                     *)
(*                                                                         *)
(* spacq.iteration.sweep.SweepController is not part of the sources at     *)
(* hand: its phases, its abort and its end guard are written from the      *)
(* specification (sections 4.1 and 5) and from the interface that          *)
(* data_capture.py uses (current_f, item, paused, pause_lock, abort,       *)
(* data_callback, close_callback, the AssertionError of end).              *)
(***************************************************************************)
EXTENDS Integers, Sequences, FiniteSets, TLC

\* ---------------------------------------------------------------- bounds
\* Largest num_items of a launched run.
MaxItems == 21
\* Laps a continuous run may complete before it has to be aborted.
MaxLaps == 2
\* Cancel requests (button or window close) the user makes during one run.
MaxCancels == 2
\* Seconds one dwell phase lasts.
DwellTime == 1

\* Largest num_items of a run whose display is followed.
MaxShownItems == 2
\* time() when such a run is launched, in seconds.
Epoch == 1

\* Dialogs one panel opens, where several are open at a time.
MaxDialogs == 3

\* ------------------------------------------------------ program constants
\* max_buf_size = 10
max_buf_size == 10
\* stall_time = 2 # s
stall_time == 2

\* num_items of the runs explored: short runs, and one long enough to fill
\* the export buffer twice.
NumItemsChoices == {n \in {1, 2, 3, MaxItems} : n <= MaxItems}
\* num_items of the continuous runs explored.
ContinuousItemsChoices == {1, 2, 3}

\* measurement_resource_names of the runs explored: no input variable, two
\* input variables on two resources, two input variables on one resource.
ResourceNames == {"a", "b"}
NamesChoices == {<< >>, <<"a", "b">>, <<"a", "a">>}

VARIABLES
    \* DataCapturePanel
    capture_dialogs,    \* self.capture_dialogs
    start_button,       \* self.start_button.Enabled
    gui_thread,         \* the GUI thread inside 'self.capture_dialogs += 1'
    dialogs,            \* the dialogs of the panel, where several are open
    \* closure of one OnBeginCapture call
    launched,           \* a dialog was created and started
    exporting,          \* exporting
    continuous,         \* dlg.continuous
    num_items,          \* dlg.num_items
    names,              \* measurement_resource_names
    buf,                \* buf
    buf_lock,           \* holder of buf_lock, or "free"
    export_file,        \* "none", "open", "closed"
    sink,               \* the rows export_csv has written after the header
    sent,               \* pub.sendMessage calls so far, per name and topic
    \* SweepController
    current_f, next_f, item, lap,
    paused, aborting, abort_fatal, ended, sweep_start_time,
    \* threads: "run" (SweepController.run) and "abort" (OnTimer.abort)
    pc,
    \* DataCaptureDialog
    cancel_button,      \* self.cancel_button.Enabled
    cancelling,         \* self.cancelling
    timer,              \* self.timer is running
    prompt,             \* the 'Abort processing?' dialog is shown
    destroyed,          \* self.Destroy() has run
    call_after,         \* wx.CallAfter queue
    display,            \* the labels OnTimer sets and the times it keeps
    \* environment and history
    clock,              \* time(), in seconds
    captured,           \* the rows data_callback has received, in order
    hist                \* counters of what happened in this run

vars == <<capture_dialogs, start_button, gui_thread, dialogs, launched, exporting, continuous,
          num_items, names, buf, buf_lock, export_file, sink, sent,
          current_f, next_f, item, lap, paused, aborting, abort_fatal, ended,
          sweep_start_time, pc, cancel_button, cancelling, timer, prompt,
          destroyed, call_after, display, clock, captured, hist>>

panel_vars == <<capture_dialogs, start_button, gui_thread, dialogs>>
config_vars == <<launched, exporting, continuous, num_items, names>>
export_vars == <<buf, buf_lock, export_file, sink>>
sweep_vars == <<current_f, next_f, item, lap, paused, aborting, abort_fatal,
                ended, sweep_start_time>>
dialog_vars == <<cancel_button, cancelling, timer, prompt, destroyed, call_after,
                display>>

Threads == {"run", "abort"}
Phases == {"init", "next", "transition", "write", "dwell", "read", "ramp_down", "end"}
Topics == {"start", "data", "stop"}

\* ------------------------------------------------------------- helpers
\* The number of entries of the sequence s that equal x.
Count(s, x) == Cardinality({i \in 1..Len(s) : s[i] = x})

\* The value a resource returns when it is read during item i (the devices
\* answer the same way in every run).
Measure(name, i) == IF name = "a" THEN i % 2 ELSE 1 - (i % 2)

\* A row whose first field is not the time of the read.
Row_untimed(cur_time, i, ns) == <<0, i>> \o [k \in 1..Len(ns) |-> Measure(ns[k], i)]

\* (cur_time,) + values + measurement_values
Row(cur_time, i, ns) == <<cur_time, i>> \o [k \in 1..Len(ns) |-> Measure(ns[k], i)]

NoSent == [n \in ResourceNames |-> [t \in Topics |-> 0]]

\* pub.sendMessage(topic, name=name) for name in ns
SendAll(s, ns, topic) ==
    [n \in ResourceNames |->
        [t \in Topics |-> IF t = topic THEN s[n][t] + Count(ns, n) ELSE s[n][t]]]

\* The panel before the first call.
NoPreflight ==
    [outputs |-> TRUE, resources |-> {}, export_enabled |-> FALSE, dir |-> "",
     exists |-> FALSE]

NoHist == [cancels |-> 0, closes |-> 0, auto_flushes |-> 0, writes |-> 0,
           reads |-> 0, fail |-> "none", fail_at |-> 0, fail_writes |-> 0,
           fail_reads |-> 0, user_abort |-> FALSE, abort_at |-> 0, pauses |-> 0,
           posts |-> 0, preflight |-> NoPreflight]

\* The dialogs a panel opens one after the other while earlier ones are
\* still open (dlg.Show() does not block).
Dialogs == 1..MaxDialogs

\* A thread that is not inside an update of self.capture_dialogs.
NoThread == [at |-> "idle", loaded |-> 0, dlg |-> 0]

\* No dialog was made.
NoDialogs == [d \in Dialogs |-> [NoThread EXCEPT !.at = "none", !.dlg = d]]

\* DataCaptureDialog.__init__, lines 51-52, 75, 80, 84, 128, 134: the times
\* OnTimer keeps and the widgets it sets. -1 stands for a label that shows
\* no number ('' or '---:--:--'). The display is written by OnTimer and read
\* by OnTimer only; it is followed where followed is set.
NoDisplay ==
    [followed |-> FALSE,
     status_message_output |-> "",
     progress_bar |-> 0,
     progress_percent |-> -1,
     last_checked_time |-> -1,
     elapsed_time |-> 0,
     elapsed_time_output |-> -1,
     remaining_time_output |-> -1]

\* ---------------------------------------------------------------- Init
\* DataCapturePanel.__init__: no dialog yet.
Init ==
    /\ capture_dialogs = 0
    /\ start_button = TRUE
    /\ gui_thread = NoThread
    /\ dialogs = NoDialogs
    /\ launched = FALSE
    /\ exporting = FALSE
    /\ continuous = FALSE
    /\ num_items = 1
    /\ names = << >>
    /\ buf = << >>
    /\ buf_lock = "free"
    /\ export_file = "none"
    /\ sink = << >>
    /\ sent = NoSent
    /\ current_f = "None"
    /\ next_f = "None"
    /\ item = -1
    /\ lap = 0
    /\ paused = FALSE
    /\ aborting = FALSE
    /\ abort_fatal = FALSE
    /\ ended = FALSE
    /\ sweep_start_time = 0
    /\ pc = [t \in Threads |-> "idle"]
    /\ cancel_button = FALSE
    /\ cancelling = FALSE
    /\ timer = FALSE
    /\ prompt = FALSE
    /\ destroyed = FALSE
    /\ call_after = << >>
    /\ display = NoDisplay
    /\ clock = 0
    /\ captured = << >>
    /\ hist = NoHist


\* ------------------------------------------------- the export pipeline
\* flush, lines 412-413: export_csv.writerows(buf); export_file.flush()
flush_sink(s, b) == s \o b

\* flush, lines 415-416: while buf: buf.pop()
flush_buf(b) == << >>

\* A data_callback that compares with > and so flushes one row late.
buffer_full_late(b) == Len(b) > max_buf_size

\* data_callback, line 426: if len(buf) >= max_buf_size
buffer_full(b) == Len(b) >= max_buf_size

\* data_callback, lines 419-420: one 'data_capture.data' per input variable.
publish_data(s, ns) == SendAll(s, ns, "data")

\* close_callback, lines 437-438: one 'data_capture.stop' per input variable.
publish_stop(s, ns) == SendAll(s, ns, "stop")

\* OnBeginCapture, lines 403-404: one 'data_capture.start' per input variable.
publish_start(s, ns) == SendAll(s, ns, "start")

\* A data_callback that appends the row without taking buf_lock.
data_callback_unlocked(t, row) ==
    /\ sent' = publish_data(sent, names)
    /\ captured' = Append(captured, row)
    /\ pc' = [pc EXCEPT ![t] = "loop"]
    /\ next_f' = "next"
    /\ IF exporting
         THEN /\ buf' = Append(buf, row)
              /\ UNCHANGED buf_lock
         ELSE UNCHANGED <<buf, buf_lock>>

\* data_callback, lines 418-424: the row is published, and with export
\* enabled the caller takes buf_lock and appends the row to buf. Without
\* export the callback returns at once.
data_callback_append(t, row) ==
    /\ sent' = publish_data(sent, names)
    /\ captured' = Append(captured, row)
    /\ IF exporting
         THEN /\ buf_lock = "free"
              /\ buf_lock' = t
              /\ buf' = Append(buf, row)
              /\ pc' = [pc EXCEPT ![t] = "data_callback"]
              /\ UNCHANGED next_f
         ELSE /\ pc' = [pc EXCEPT ![t] = "loop"]
              /\ next_f' = "next"
              /\ UNCHANGED <<buf, buf_lock>>

\* data_callback, lines 426-427 and the end of the with block: flush when
\* the buffer is full, release buf_lock, return to the read phase, which
\* returns the next phase.
data_callback_flush(t) ==
    /\ pc[t] = "data_callback"
    /\ buf_lock = t
    /\ IF buffer_full(buf)
         THEN /\ sink' = flush_sink(sink, buf)
              /\ buf' = flush_buf(buf)
              /\ hist' = [hist EXCEPT !.auto_flushes = @ + 1]
         ELSE UNCHANGED <<sink, buf, hist>>
    /\ buf_lock' = "free"
    /\ pc' = [pc EXCEPT ![t] = "loop"]
    /\ next_f' = "next"
    /\ UNCHANGED <<panel_vars, config_vars, export_file, sent, current_f, item,
                   lap, paused, aborting, abort_fatal, ended, sweep_start_time,
                   dialog_vars, clock, captured>>

\* close_callback, lines 429-433: the dialog count goes down and, with
\* export enabled, the caller takes buf_lock.
close_callback_lock(t) ==
    /\ capture_dialogs' = capture_dialogs - 1
    /\ IF exporting
         THEN /\ buf_lock = "free"
              /\ buf_lock' = t
         ELSE UNCHANGED buf_lock
    /\ pc' = [pc EXCEPT ![t] = "close_callback"]

\* A close_callback that closes the file without the final flush.
close_callback_noflush(t) ==
    /\ pc[t] = "close_callback"
    /\ IF exporting
         THEN /\ buf_lock = t
              /\ export_file = "open"
              /\ export_file' = "closed"
              /\ buf_lock' = "free"
              /\ UNCHANGED <<sink, buf>>
         ELSE UNCHANGED <<sink, buf, export_file, buf_lock>>
    /\ sent' = publish_stop(sent, names)
    /\ pc' = [pc EXCEPT ![t] = "stall"]
    /\ UNCHANGED <<panel_vars, config_vars, sweep_vars, dialog_vars, clock,
                   captured, hist>>

\* A close_callback whose 'data_capture.stop' loop sits inside the
\* 'if exporting' block.
close_callback_stop_if_exporting(t) ==
    /\ pc[t] = "close_callback"
    /\ IF exporting
         THEN /\ buf_lock = t
              /\ export_file = "open"
              /\ sink' = flush_sink(sink, buf)
              /\ buf' = flush_buf(buf)
              /\ export_file' = "closed"
              /\ buf_lock' = "free"
              /\ sent' = publish_stop(sent, names)
         ELSE UNCHANGED <<sink, buf, export_file, buf_lock, sent>>
    /\ pc' = [pc EXCEPT ![t] = "stall"]
    /\ UNCHANGED <<panel_vars, config_vars, sweep_vars, dialog_vars, clock,
                   captured, hist>>

\* close_callback, lines 434-438: the final flush, the close of the file,
\* the release of buf_lock, then one 'data_capture.stop' per input variable.
\* SweepController.end returns and the dialog's end goes on.
close_callback(t) ==
    /\ pc[t] = "close_callback"
    /\ IF exporting
         THEN /\ buf_lock = t
              /\ export_file = "open"
              /\ sink' = flush_sink(sink, buf)
              /\ buf' = flush_buf(buf)
              /\ export_file' = "closed"
              /\ buf_lock' = "free"
         ELSE UNCHANGED <<sink, buf, export_file, buf_lock>>
    /\ sent' = publish_stop(sent, names)
    /\ pc' = [pc EXCEPT ![t] = "stall"]
    /\ UNCHANGED <<panel_vars, config_vars, sweep_vars, dialog_vars, clock,
                   captured, hist>>

\* ------------------------------------------------------ DataCapturePanel
\* What OnBeginCapture finds when it is called.
Preflights ==
    [outputs : BOOLEAN,         \* an enabled output variable exists
     \* the lists the loops over the resource names fill
     resources : SUBSET {"missing", "unreadable", "unwritable"},
     export_enabled : BOOLEAN,  \* self.export_enabled.Value
     dir : {"", "file", "dir"}, \* self.directory_browse_button.GetValue()
     exists : BOOLEAN]          \* os.path.exists(file_path)

\* What a call has read of p: the directory is read with export enabled
\* only (line 367), os.path.exists is called on a directory only (line 382).
preflight_read(p) ==
    [p EXCEPT !.dir = IF p.export_enabled THEN @ ELSE "",
              !.exists = IF p.export_enabled /\ p.dir = "dir" THEN @ ELSE FALSE]

\* An OnBeginCapture that does not look whether the file exists.
preflight_fails_overwrite(p) ==
    \/ ~p.outputs
    \/ p.resources # {}
    \/ /\ p.export_enabled
       /\ \/ p.dir = ""
          \/ p.dir # "dir"

\* OnBeginCapture, lines 312-384: the checks that return before the launch.
preflight_fails(p) ==
    \/ ~p.outputs
    \/ p.resources # {}
    \/ /\ p.export_enabled
       /\ \/ p.dir = ""
          \/ p.dir # "dir"
          \/ p.exists

\* OnBeginCapture, lines 298-443. The sort_variables result (num_items), the
\* continuous checkbox and the input variables' resource names are inputs.
OnBeginCapture ==
    /\ start_button
    /\ ~launched
    /\ start_button' = FALSE
    /\ UNCHANGED <<gui_thread, dialogs>>
    /\ \E p \in Preflights, c \in BOOLEAN, ns \in NamesChoices,
          n \in NumItemsChoices \cup ContinuousItemsChoices :
        /\ n \in (IF c THEN ContinuousItemsChoices ELSE NumItemsChoices)
        /\ hist' = [hist EXCEPT !.preflight = preflight_read(p)]
        /\ IF preflight_fails(p)
             THEN UNCHANGED <<capture_dialogs, config_vars, export_vars, sent,
                              sweep_vars, pc, dialog_vars, clock, captured>>
             ELSE /\ exporting' = p.export_enabled
                  /\ export_file' = IF p.export_enabled THEN "open" ELSE "none"
                  /\ sink' = << >>
                  /\ capture_dialogs' = capture_dialogs + 1
                  \* DataCaptureDialog.__init__, SweepController.__init__
                  /\ launched' = TRUE
                  /\ continuous' = c
                  /\ num_items' = n
                  /\ names' = ns
                  /\ cancelling' = FALSE
                  /\ cancel_button' = TRUE
                  /\ sent' = publish_start(sent, ns)
                  /\ buf' = << >>
                  /\ buf_lock' = "free"
                  \* dlg.start(): the run thread and the timer
                  /\ pc' = [pc EXCEPT !["run"] = "loop"]
                  /\ next_f' = "init"
                  /\ timer' = TRUE
                  /\ UNCHANGED <<current_f, item, lap, paused, aborting,
                                 abort_fatal, ended, sweep_start_time, prompt,
                                 destroyed, call_after, display, clock, captured>>

\* enable_button, lines 301-303: the start button comes back a second later.
enable_button ==
    /\ ~start_button
    /\ start_button' = TRUE
    /\ UNCHANGED <<capture_dialogs, gui_thread, dialogs, config_vars, export_vars, sent, sweep_vars,
                   pc, dialog_vars, clock, captured, hist>>


\* ------------------------------------------------------ SweepController
\* abort(fatal): the cancellation flag is raised for the run thread to see
\* at its next phase boundary, and the pause gate is released so that the
\* run thread can reach that boundary.
SweepController_abort(fatal) ==
    /\ aborting' = TRUE
    /\ abort_fatal' = (abort_fatal \/ fatal)
    /\ paused' = FALSE

\* A handler that shows the error and does not abort the run.
resource_exception_handler_silent(write) == UNCHANGED <<aborting, abort_fatal, paused>>

\* A handler that calls self.abort() and so never asks for a fatal abort.
resource_exception_handler_nonfatal(write) == SweepController_abort(FALSE)

\* A handler that calls self.abort(fatal=True) whatever failed.
resource_exception_handler_fatal(write) == SweepController_abort(TRUE)

\* resource_exception_handler, lines 150-159: self.abort(fatal=write), after
\* the error message is shown.
resource_exception_handler(write) == SweepController_abort(write)

\* The phase the run thread enters at a phase boundary: the phase the last
\* one returned, unless an abort was requested. A fatal abort goes straight
\* to end, another abort unwinds through ramp_down. The first phase, init,
\* is always entered.
EffectivePhase ==
    IF next_f = "init" THEN "init"
    ELSE IF aborting /\ abort_fatal /\ next_f # "end" THEN "end"
    ELSE IF aborting /\ next_f \notin {"ramp_down", "end"} THEN "ramp_down"
    ELSE next_f

\* run: between two phases the thread waits while paused is set, then
\* enters the next phase.
AtBoundary(f) ==
    /\ pc["run"] = "loop"
    /\ ~paused
    /\ EffectivePhase = f
    /\ current_f' = f

\* run, between two phases: with pause_lock held the thread finds paused
\* set and waits on the condition, which releases pause_lock.
pause_wait ==
    /\ pc["run"] = "loop"
    /\ paused
    /\ pc' = [pc EXCEPT !["run"] = "wait"]
    /\ UNCHANGED <<panel_vars, config_vars, export_vars, sent, sweep_vars,
                   dialog_vars, clock, captured, hist>>

\* pause_lock.notify(): a thread waiting on the condition is woken.
notify(p) == [p EXCEPT !["run"] = IF @ = "wait" THEN "woken" ELSE @]

\* The woken thread takes pause_lock again, returns from the wait and is
\* back between two phases, where paused is looked at again.
pause_wake ==
    /\ pc["run"] = "woken"
    /\ pc' = [pc EXCEPT !["run"] = "loop"]
    /\ UNCHANGED <<panel_vars, config_vars, export_vars, sent, sweep_vars,
                   dialog_vars, clock, captured, hist>>

phase_init ==
    /\ AtBoundary("init")
    /\ sweep_start_time' = clock
    /\ next_f' = "next"
    /\ UNCHANGED <<panel_vars, config_vars, export_vars, sent, item, lap, paused,
                   aborting, abort_fatal, ended, pc, dialog_vars, clock,
                   captured, hist>>

\* next: the next value tuple, or the end of the iteration. item counts the
\* cycles completed in this lap. A continuous run starts over.
phase_next ==
    /\ AtBoundary("next")
    /\ continuous => lap < MaxLaps
    /\ IF item + 1 < num_items
         THEN /\ item' = item + 1
              /\ next_f' = "transition"
              /\ lap' = lap
         ELSE IF continuous
         THEN /\ item' = -1
              /\ next_f' = "next"
              /\ lap' = lap + 1
         ELSE /\ item' = item + 1
              /\ next_f' \in {"ramp_down", "end"}
              /\ lap' = lap
    /\ UNCHANGED <<panel_vars, config_vars, export_vars, sent, paused, aborting,
                   abort_fatal, ended, sweep_start_time, pc, dialog_vars, clock,
                   captured, hist>>

phase_transition ==
    /\ AtBoundary("transition")
    /\ next_f' = "write"
    /\ UNCHANGED <<panel_vars, config_vars, export_vars, sent, item, lap, paused,
                   aborting, abort_fatal, ended, sweep_start_time, pc,
                   dialog_vars, clock, captured, hist>>

\* The number of items completed so far, over all laps.
Completed == Len(captured)

\* write: every output value is written to its resource; a write that
\* raises calls resource_exception_handler(write=True).
phase_write ==
    /\ AtBoundary("write")
    /\ next_f' = "dwell"
    /\ \E ok \in BOOLEAN :
        IF ok
          THEN /\ hist' = [hist EXCEPT !.writes = @ + 1]
               /\ UNCHANGED <<paused, aborting, abort_fatal>>
          ELSE /\ hist.fail = "none"
               /\ hist' = [hist EXCEPT !.writes = @ + 1, !.fail = "write",
                                       !.fail_at = Completed,
                                       !.abort_at = IF aborting THEN @ ELSE Completed,
                                       !.fail_writes = hist.writes + 1,
                                       !.fail_reads = hist.reads]
               /\ resource_exception_handler(TRUE)
    /\ UNCHANGED <<panel_vars, config_vars, export_vars, sent, item, lap, ended,
                   sweep_start_time, pc, dialog_vars, clock, captured>>

phase_dwell ==
    /\ AtBoundary("dwell")
    /\ next_f' = "read"
    /\ clock' = clock + DwellTime
    /\ UNCHANGED <<panel_vars, config_vars, export_vars, sent, item, lap, paused,
                   aborting, abort_fatal, ended, sweep_start_time, pc,
                   dialog_vars, captured, hist>>

\* read: every input resource is read; a read that raises calls
\* resource_exception_handler(write=False) and no row is made. Otherwise the
\* row goes to data_callback(time(), values, measurements).
phase_read ==
    /\ AtBoundary("read")
    /\ \E ok \in BOOLEAN :
        IF ok \/ names = << >>
          THEN /\ ok
               /\ hist' = [hist EXCEPT !.reads = @ + 1]
               /\ data_callback_append("run", Row(clock, item, names))
               /\ UNCHANGED <<paused, aborting, abort_fatal>>
          ELSE /\ hist.fail = "none"
               /\ hist' = [hist EXCEPT !.reads = @ + 1, !.fail = "read",
                                       !.fail_at = Completed,
                                       !.abort_at = IF aborting THEN @ ELSE Completed,
                                       !.fail_writes = hist.writes,
                                       !.fail_reads = hist.reads + 1]
               /\ resource_exception_handler(FALSE)
               /\ next_f' = "next"
               /\ UNCHANGED <<buf, buf_lock, sent, captured, pc>>
    /\ UNCHANGED <<panel_vars, config_vars, export_file, sink, item, lap, ended,
                   sweep_start_time, dialog_vars, clock>>

\* ramp_down: the outputs are set smoothly back, which writes to them.
phase_ramp_down ==
    /\ AtBoundary("ramp_down")
    /\ next_f' = "end"
    /\ hist' = [hist EXCEPT !.writes = @ + 1]
    /\ UNCHANGED <<panel_vars, config_vars, export_vars, sent, item, lap, paused,
                   aborting, abort_fatal, ended, sweep_start_time, pc,
                   dialog_vars, clock, captured>>

\* end is the last phase: run calls self.end(), the dialog's end.
phase_end ==
    /\ AtBoundary("end")
    /\ next_f' = "None"
    /\ pc' = [pc EXCEPT !["run"] = "end"]
    /\ UNCHANGED <<panel_vars, config_vars, export_vars, sent, item, lap, paused,
                   aborting, abort_fatal, ended, sweep_start_time, dialog_vars,
                   clock, captured, hist>>

\* SweepController.end asserts that the run was started and has not ended.
SweepController_end_raises == current_f = "None" \/ ended


\* ----------------------------------------------------- DataCaptureDialog
\* An end that closes whether or not the run was started and has not ended.
end_unguarded(t) ==
    /\ ended' = TRUE
    /\ close_callback_lock(t)
    /\ hist' = [hist EXCEPT !.closes = @ + 1]
    /\ UNCHANGED <<start_button, gui_thread, dialogs, config_vars, buf, export_file, sink, sent,
                   current_f, next_f, item, lap, paused, aborting, abort_fatal,
                   sweep_start_time, dialog_vars, clock, captured>>

\* An end that passes over the AssertionError instead of returning.
end_fallthrough(t) ==
    IF SweepController_end_raises
      THEN /\ pc' = [pc EXCEPT ![t] = "stall"]
           /\ UNCHANGED <<panel_vars, config_vars, export_vars, sent, current_f,
                          next_f, item, lap, paused, aborting, abort_fatal, ended,
                          sweep_start_time, dialog_vars, clock, captured, hist>>
      ELSE /\ ended' = TRUE
           /\ close_callback_lock(t)
           /\ hist' = [hist EXCEPT !.closes = @ + 1]
           /\ UNCHANGED <<start_button, gui_thread, dialogs, config_vars, buf, export_file, sink, sent,
                          current_f, next_f, item, lap, paused, aborting,
                          abort_fatal, sweep_start_time, dialog_vars, clock,
                          captured>>

\* end, lines 168-172: SweepController.end calls close_callback unless its
\* assertion fails, and then end returns at once.
end(t) ==
    IF SweepController_end_raises
      THEN /\ pc' = [pc EXCEPT ![t] = "returned"]
           /\ UNCHANGED <<panel_vars, config_vars, export_vars, sent, current_f,
                          next_f, item, lap, paused, aborting, abort_fatal, ended,
                          sweep_start_time, dialog_vars, clock, captured, hist>>
      ELSE /\ ended' = TRUE
           /\ close_callback_lock(t)
           /\ hist' = [hist EXCEPT !.closes = @ + 1]
           /\ UNCHANGED <<start_button, gui_thread, dialogs, config_vars, buf, export_file, sink, sent,
                          current_f, next_f, item, lap, paused, aborting,
                          abort_fatal, sweep_start_time, dialog_vars, clock,
                          captured>>

\* The run thread's call of self.end() in the end phase.
run_end ==
    /\ pc["run"] = "end"
    /\ end("run")

\* An end that does not sleep.
end_stall_none(t) ==
    /\ pc[t] = "stall"
    /\ pc' = [pc EXCEPT ![t] = "post"]
    /\ UNCHANGED <<panel_vars, config_vars, export_vars, sent, sweep_vars,
                   dialog_vars, clock, captured, hist>>

\* end, lines 174-177: sleep until stall_time has passed since the start.
end_stall(t) ==
    /\ pc[t] = "stall"
    /\ LET span == clock - sweep_start_time
       IN  clock' = IF span < stall_time THEN clock + (stall_time - span) ELSE clock
    /\ pc' = [pc EXCEPT ![t] = "post"]
    /\ UNCHANGED <<panel_vars, config_vars, export_vars, sent, sweep_vars,
                   dialog_vars, captured, hist>>

\* end, lines 179-180: wx.CallAfter(self.timer.Stop), wx.CallAfter(self.Destroy)
end_post(t) ==
    /\ pc[t] = "post"
    /\ call_after' = call_after \o <<"timer.Stop", "Destroy">>
    /\ hist' = [hist EXCEPT !.posts = @ + 1]
    /\ pc' = [pc EXCEPT ![t] = "done"]
    /\ UNCHANGED <<panel_vars, config_vars, export_vars, sent, sweep_vars,
                   cancel_button, cancelling, timer, prompt, destroyed, display, clock,
                   captured>>

\* The GUI thread runs the next wx.CallAfter call.
CallAfter ==
    /\ call_after # << >>
    /\ call_after' = Tail(call_after)
    /\ IF Head(call_after) = "timer.Stop"
         THEN /\ timer' = FALSE
              /\ UNCHANGED <<destroyed, prompt>>
         ELSE /\ destroyed' = TRUE
              /\ prompt' = FALSE
              /\ UNCHANGED timer
    /\ UNCHANGED <<panel_vars, config_vars, export_vars, sent, sweep_vars, pc,
                   cancel_button, cancelling, display, clock, captured, hist>>

\* An OnCancel that does not look at the button.
OnCancel_unguarded ==
    /\ launched
    /\ ~destroyed
    /\ hist.cancels < MaxCancels
    /\ cancel_button' = FALSE
    /\ cancelling' = TRUE
    /\ hist' = [hist EXCEPT !.cancels = @ + 1]
    /\ UNCHANGED <<panel_vars, config_vars, export_vars, sent, sweep_vars, pc,
                   timer, prompt, destroyed, call_after, display, clock, captured>>

\* OnCancel, lines 182-187: the cancel button or the window's close box.
OnCancel ==
    /\ launched
    /\ ~destroyed
    /\ hist.cancels < MaxCancels
    /\ IF ~cancel_button
         THEN UNCHANGED <<cancel_button, cancelling, hist>>
         ELSE /\ cancel_button' = FALSE
              /\ cancelling' = TRUE
              /\ hist' = [hist EXCEPT !.cancels = @ + 1]
    /\ UNCHANGED <<panel_vars, config_vars, export_vars, sent, sweep_vars, pc,
                   timer, prompt, destroyed, call_after, display, clock, captured>>

\* The gauge was made with range=num_items (line 80).
progress_bar_range(n) == n

\* OnTimer, line 193: the progress is shown once the first item has begun.
shows_progress(n, i) == n > 0 /\ i >= 0

\* A percent label that counts the item in progress as done.
progress_percent_ahead(i, n) == (100 * (i + 1)) \div n

\* OnTimer, lines 194 and 197: int(100 * (float(item) / num_items)).
progress_percent_Label(i, n) == (100 * i) \div n

\* OnTimer, lines 199-201: the time since the last poll is added, in us.
elapsed_time_after(d, now) ==
    IF d.last_checked_time > 0
      THEN d.elapsed_time + (now - d.last_checked_time) * 1000000
      ELSE d.elapsed_time

\* OnTimer, line 205: the remaining time is shown in a run that is not
\* continuous (line 49), once amount_done > 0.
shows_remaining_time(c, i) == ~c /\ i > 0

\* An estimate that takes the share of the items done for the share left.
remaining_time_share(elapsed, i, n) == (elapsed * i) \div n - elapsed

\* OnTimer, lines 206-207: int(elapsed_time / amount_done - elapsed_time).
remaining_time(elapsed, i, n) == (elapsed * n) \div i - elapsed

\* OnTimer, lines 190-209 and 235: the status message, the progress, the
\* elapsed and the remaining time as a poll at time now leaves them.
update_display(d, now) ==
    LET elapsed == elapsed_time_after(d, now)
        d1 == [d EXCEPT !.status_message_output = current_f]
        d2 == IF shows_progress(num_items, item)
                THEN [d1 EXCEPT
                        !.progress_bar = item,
                        !.progress_percent = progress_percent_Label(item, num_items),
                        !.elapsed_time = elapsed,
                        !.elapsed_time_output =
                            IF d.last_checked_time > 0
                              THEN elapsed \div 1000000 ELSE @,
                        !.last_checked_time = now,
                        !.remaining_time_output =
                            IF shows_remaining_time(continuous, item)
                              THEN remaining_time(elapsed, item, num_items)
                                       \div 1000000
                              ELSE @]
                ELSE d1
    IN  IF cancelling THEN [d2 EXCEPT !.last_checked_time = -1] ELSE d2

\* OnTimer, lines 189-240: the display is brought up to date, and a poll
\* that finds cancelling set pauses the run, stops the timer and shows the
\* prompt.
OnTimer ==
    /\ launched
    /\ timer
    /\ ~destroyed
    /\ display' = IF display.followed THEN update_display(display, clock)
                                      ELSE display
    /\ IF cancelling
         THEN /\ paused' = TRUE
              /\ timer' = FALSE
              /\ prompt' = TRUE
              /\ hist' = [hist EXCEPT !.pauses = @ + 1]
         ELSE UNCHANGED <<paused, timer, prompt, hist>>
    /\ UNCHANGED <<panel_vars, config_vars, export_vars, sent, current_f, next_f,
                   item, lap, aborting, abort_fatal, ended, sweep_start_time, pc,
                   cancel_button, cancelling, destroyed, call_after, clock,
                   captured>>

\* An answer 'yes' that restarts the timer and starts no thread.
abort_no_thread ==
    /\ prompt
    /\ ~destroyed
    /\ prompt' = FALSE
    /\ cancelling' = FALSE
    /\ timer' = TRUE
    /\ hist' = [hist EXCEPT !.user_abort = TRUE]
    /\ UNCHANGED <<panel_vars, config_vars, export_vars, sent, sweep_vars, pc,
                   cancel_button, destroyed, call_after, display, clock, captured>>

\* OnTimer.abort, lines 213-220: the answer 'yes' to the prompt.
abort ==
    /\ prompt
    /\ ~destroyed
    /\ prompt' = FALSE
    /\ cancelling' = FALSE
    /\ pc' = [pc EXCEPT !["abort"] = "abort"]
    /\ timer' = TRUE
    /\ hist' = [hist EXCEPT !.user_abort = TRUE]
    /\ UNCHANGED <<panel_vars, config_vars, export_vars, sent, sweep_vars,
                   cancel_button, destroyed, call_after, display, clock, captured>>

\* A prompt whose 'no' answer was given the abort callback.
resume_swapped ==
    /\ prompt
    /\ ~destroyed
    /\ prompt' = FALSE
    /\ cancelling' = FALSE
    /\ pc' = [pc EXCEPT !["abort"] = "abort"]
    /\ timer' = TRUE
    /\ UNCHANGED <<panel_vars, config_vars, export_vars, sent, sweep_vars,
                   cancel_button, destroyed, call_after, display, clock, captured, hist>>

\* A resume that clears paused and does not notify the condition.
resume_no_notify ==
    /\ prompt
    /\ ~destroyed
    /\ prompt' = FALSE
    /\ cancelling' = FALSE
    /\ paused' = FALSE
    /\ cancel_button' = TRUE
    /\ timer' = TRUE
    /\ UNCHANGED <<panel_vars, config_vars, export_vars, sent, current_f, next_f,
                   item, lap, aborting, abort_fatal, ended, sweep_start_time, pc,
                   destroyed, call_after, display, clock, captured, hist>>

\* OnTimer.resume, lines 222-231: the answer 'no' to the prompt. With
\* pause_lock held, paused is cleared and the condition is notified.
resume ==
    /\ prompt
    /\ ~destroyed
    /\ prompt' = FALSE
    /\ cancelling' = FALSE
    /\ paused' = FALSE
    /\ pc' = notify(pc)
    /\ cancel_button' = TRUE
    /\ timer' = TRUE
    /\ UNCHANGED <<panel_vars, config_vars, export_vars, sent, current_f, next_f,
                   item, lap, aborting, abort_fatal, ended, sweep_start_time,
                   destroyed, call_after, display, clock, captured, hist>>

\* The thread started by the answer 'yes' runs SweepController.abort(),
\* which wakes a run thread that waits on the pause condition.
abort_thread ==
    /\ pc["abort"] = "abort"
    /\ SweepController_abort(FALSE)
    /\ pc' = notify([pc EXCEPT !["abort"] = "after"])
    /\ hist' = [hist EXCEPT !.abort_at = IF aborting THEN @ ELSE Completed]
    /\ UNCHANGED <<panel_vars, config_vars, export_vars, sent, current_f, next_f,
                   item, lap, ended, sweep_start_time, dialog_vars, clock,
                   captured>>

\* The cancel path may call end() as well, on a run that has already ended
\* or that has not entered its first phase.
cancel_end ==
    /\ pc["abort"] = "after"
    /\ current_f = "None" \/ ended
    /\ end("abort")

\* Or it leaves the end to the run thread.
abort_return ==
    /\ pc["abort"] = "after"
    /\ pc' = [pc EXCEPT !["abort"] = "done"]
    /\ UNCHANGED <<panel_vars, config_vars, export_vars, sent, sweep_vars,
                   dialog_vars, clock, captured, hist>>

\* ------------------------------------------------------- specification
Next ==
    \/ OnBeginCapture
    \/ enable_button
    \/ pause_wait
    \/ pause_wake
    \/ phase_init
    \/ phase_next
    \/ phase_transition
    \/ phase_write
    \/ phase_dwell
    \/ phase_read
    \/ data_callback_flush("run")
    \/ phase_ramp_down
    \/ phase_end
    \/ run_end
    \/ \E t \in Threads : close_callback(t)
    \/ \E t \in Threads : end_stall(t)
    \/ \E t \in Threads : end_post(t)
    \/ CallAfter
    \/ OnCancel
    \/ OnTimer
    \/ abort
    \/ resume
    \/ abort_thread
    \/ cancel_end
    \/ abort_return

Spec == Init /\ [][Next]_vars

\* The steps of the thread that start gave SweepController.run to.
run_thread ==
    \/ pause_wait
    \/ pause_wake
    \/ phase_init
    \/ phase_next
    \/ phase_transition
    \/ phase_write
    \/ phase_dwell
    \/ phase_read
    \/ data_callback_flush("run")
    \/ phase_ramp_down
    \/ phase_end
    \/ run_end
    \/ close_callback("run")
    \/ end_stall("run")
    \/ end_post("run")

\* Threads that were started run: the run thread takes its next step unless
\* it waits (for paused to be cleared, for buf_lock), and so does the thread
\* the 'abort' answer starts. Nothing is asked of the user or of the GUI
\* thread.
FairSpec == Spec /\ WF_vars(run_thread) /\ WF_vars(abort_thread)

\* A run whose display is followed: the state OnBeginCapture leaves when it
\* has launched a run of up to MaxShownItems items without export and
\* without input variables, at time Epoch.
DisplayInit ==
    /\ capture_dialogs = 1
    /\ start_button = FALSE
    /\ gui_thread = NoThread
    /\ dialogs = NoDialogs
    /\ launched = TRUE
    /\ exporting = FALSE
    /\ continuous \in BOOLEAN
    /\ num_items \in 1..MaxShownItems
    /\ names = << >>
    /\ buf = << >>
    /\ buf_lock = "free"
    /\ export_file = "none"
    /\ sink = << >>
    /\ sent = NoSent
    /\ current_f = "None"
    /\ next_f = "init"
    /\ item = -1
    /\ lap = 0
    /\ paused = FALSE
    /\ aborting = FALSE
    /\ abort_fatal = FALSE
    /\ ended = FALSE
    /\ sweep_start_time = 0
    /\ pc = [t \in Threads |-> IF t = "run" THEN "loop" ELSE "idle"]
    /\ cancel_button = TRUE
    /\ cancelling = FALSE
    /\ timer = TRUE
    /\ prompt = FALSE
    /\ destroyed = FALSE
    /\ call_after = << >>
    /\ display = [NoDisplay EXCEPT !.followed = TRUE]
    /\ clock = Epoch
    /\ captured = << >>
    /\ hist = NoHist

\* The steps of a launched run without export.
DisplayNext ==
    \/ enable_button
    \/ pause_wait
    \/ pause_wake
    \/ phase_init
    \/ phase_next
    \/ phase_transition
    \/ phase_write
    \/ phase_dwell
    \/ phase_read
    \/ phase_ramp_down
    \/ phase_end
    \/ run_end
    \/ \E t \in Threads : close_callback(t)
    \/ \E t \in Threads : end_stall(t)
    \/ \E t \in Threads : end_post(t)
    \/ CallAfter
    \/ OnCancel
    \/ OnTimer
    \/ abort
    \/ resume
    \/ abort_thread
    \/ cancel_end
    \/ abort_return

DisplaySpec == DisplayInit /\ [][DisplayNext]_vars

\* ------------------------------------------- several dialogs of one panel
\* Everything that belongs to the one run the other steps follow.
one_run_vars == <<config_vars, export_vars, sent, sweep_vars, pc, dialog_vars,
                  clock, captured, hist>>

\* OnBeginCapture, lines 298-398, with every check passed: the button is
\* disabled and 'self.capture_dialogs += 1' reads the attribute.
begin_capture_load ==
    /\ start_button
    /\ gui_thread.at = "idle"
    /\ \E d \in Dialogs :
        /\ dialogs[d].at = "none"
        /\ \A e \in Dialogs : e < d => dialogs[e].at # "none"
        /\ gui_thread' = [at |-> "store", loaded |-> capture_dialogs, dlg |-> d]
    /\ start_button' = FALSE
    /\ UNCHANGED <<capture_dialogs, dialogs, one_run_vars>>

\* OnBeginCapture, lines 398-443: 'self.capture_dialogs += 1' stores the
\* sum, the dialog is made and shown, its run thread started.
begin_capture_store ==
    /\ gui_thread.at = "store"
    /\ capture_dialogs' = gui_thread.loaded + 1
    /\ dialogs' = [dialogs EXCEPT ![gui_thread.dlg].at = "open"]
    /\ gui_thread' = NoThread
    /\ UNCHANGED <<start_button, one_run_vars>>

\* enable_button, lines 301-303, next to the dialogs.
begin_capture_enable ==
    /\ ~start_button
    /\ start_button' = TRUE
    /\ UNCHANGED <<capture_dialogs, gui_thread, dialogs, one_run_vars>>

\* close_callback, line 430, on the thread that ends the run of dialog d:
\* 'self.capture_dialogs -= 1' reads the attribute. No lock is held.
close_callback_load(d) ==
    /\ dialogs[d].at = "open"
    /\ dialogs' = [dialogs EXCEPT ![d].at = "store", ![d].loaded = capture_dialogs]
    /\ UNCHANGED <<capture_dialogs, start_button, gui_thread, one_run_vars>>

\* close_callback, line 430: 'self.capture_dialogs -= 1' stores the
\* difference.
close_callback_store(d) ==
    /\ dialogs[d].at = "store"
    /\ capture_dialogs' = dialogs[d].loaded - 1
    /\ dialogs' = [dialogs EXCEPT ![d].at = "closed", ![d].loaded = 0]
    /\ UNCHANGED <<start_button, gui_thread, one_run_vars>>

PanelNext ==
    \/ begin_capture_load
    \/ begin_capture_store
    \/ begin_capture_enable
    \/ \E d \in Dialogs : close_callback_load(d)
    \/ \E d \in Dialogs : close_callback_store(d)

\* One panel and the dialogs it opens: the GUI thread counts them up, the
\* thread that ends a run counts them down.
PanelSpec == Init /\ [][PanelNext]_vars

TypeOK ==
    /\ capture_dialogs \in 0..1
    /\ buf_lock \in {"free"} \cup Threads
    /\ export_file \in {"none", "open", "closed"}
    /\ current_f \in Phases \cup {"None"}
    /\ next_f \in Phases \cup {"None"}
    /\ item \in -1..MaxItems
    /\ Len(buf) <= max_buf_size


\* ---------------------------------------------------------------- claims
\* The run thread has left SweepController.run's loop and close_callback
\* has returned.
Closed == pc["run"] \in {"stall", "post", "done"}

\* C1: with export enabled the rows written and the rows still buffered are,
\* in order, the rows data_callback received; once close_callback has
\* returned the buffer is empty, so the file holds every row that
\* data_callback received, once and in that order, and no row arrives after
\* the file was closed.
C1_SinkHoldsEveryRow ==
    exporting =>
        /\ sink \o buf = captured
        /\ export_file = "closed" => (buf = << >> /\ sink = captured)
        /\ Closed => export_file = "closed"

\* A user-aborted run is closed after more rows than one automatic flush
\* wrote, the rest written by the final flush.
C1_Witness ==
    /\ exporting
    /\ Closed
    /\ hist.user_abort
    /\ Len(captured) > max_buf_size
    /\ Len(captured) % max_buf_size # 0
    /\ sink = captured

\* C2: buf never holds more than max_buf_size rows, holds fewer whenever
\* buf_lock is free, and changes only in steps of a thread that holds
\* buf_lock before or after the step.
C2_BufferBounded ==
    /\ [](/\ Len(buf) <= max_buf_size
          /\ buf_lock = "free" => Len(buf) < max_buf_size
          /\ \A t \in Threads :
                pc[t] \in {"data_callback", "close_callback"} /\ exporting
                    => buf_lock = t)
    /\ [][buf' # buf => (buf_lock # "free" \/ buf_lock' # "free")]_vars

\* The tenth row is in the buffer, under the lock, before the flush.
C2_Witness ==
    /\ Len(buf) = max_buf_size
    /\ buf_lock = "run"
    /\ pc["run"] = "data_callback"

\* C3: with export enabled, after n rows floor(n / max_buf_size) automatic
\* flushes have happened once data_callback has returned (one fewer while
\* the row that fills the buffer is still inside data_callback), and each
\* wrote max_buf_size rows.
C3_FlushPerMaxBufSize ==
    exporting =>
        /\ pc["run"] # "data_callback"
              => hist.auto_flushes = Len(captured) \div max_buf_size
        /\ pc["run"] = "data_callback"
              => hist.auto_flushes = (Len(captured) - 1) \div max_buf_size
        /\ export_file = "open" => Len(sink) = max_buf_size * hist.auto_flushes

\* The twentieth row has been flushed, by the second automatic flush, and
\* the run goes on.
C3_Witness ==
    /\ exporting
    /\ hist.auto_flushes = 2
    /\ Len(sink) = 2 * max_buf_size
    /\ buf = << >>
    /\ pc["run"] = "loop"
    /\ export_file = "open"


\* C4: close_callback runs at most once; once the run thread is past it, it
\* has run exactly once: the dialog count is back to zero, the file is
\* closed, every input variable got its 'data_capture.stop'. The run
\* thread's own end is never turned away, and the cancel path never closes.
C4_CloseExactlyOnce ==
    /\ hist.closes <= 1
    /\ capture_dialogs = (IF launched /\ hist.closes = 0 THEN 1 ELSE 0)
    /\ pc["run"] # "returned"
    /\ pc["abort"] \notin {"close_callback", "stall", "post"}
    /\ ended <=> hist.closes = 1
    /\ Closed =>
          /\ hist.closes = 1
          /\ exporting => export_file = "closed" /\ buf = << >>
          /\ \A n \in ResourceNames : sent[n]["stop"] = Count(names, n)
    /\ ~Closed => \A n \in ResourceNames : sent[n]["stop"] = 0

\* The user confirmed the abort of a run that had completed all its items:
\* the cancel path called end() after the run thread had closed.
C4_Witness ==
    /\ Closed
    /\ ~continuous
    /\ hist.fail = "none"
    /\ hist.user_abort
    /\ item = num_items
    /\ pc["abort"] = "returned"
    /\ hist.closes = 1

\* C5 as stated: on every resource name, 'data_capture.start' is sent once
\* at the launch and 'data_capture.stop' once at the close.
C5_StartStopOncePerName ==
    \A n \in ResourceNames :
        Count(names, n) > 0 =>
            /\ sent[n]["start"] = 1
            /\ sent[n]["stop"] <= 1
            /\ Closed => sent[n]["stop"] = 1

\* C5, amended: on every resource name there is one 'data_capture.start'
\* per input variable bound to the name, all sent before the first
\* 'data_capture.data'; one 'data_capture.data' per such variable and row;
\* one 'data_capture.stop' per such variable, all sent together after the
\* last 'data_capture.data'.
C5_StartDataStopOrder ==
    /\ [](\A n \in ResourceNames :
            /\ sent[n]["start"] = (IF launched THEN Count(names, n) ELSE 0)
            /\ sent[n]["data"] = Count(names, n) * Len(captured)
            /\ sent[n]["stop"] \in {0, Count(names, n)}
            /\ Closed => sent[n]["stop"] = Count(names, n))
    /\ [][\A n \in ResourceNames :
            /\ sent'[n]["start"] # sent[n]["start"]
                  => sent[n]["data"] = 0 /\ sent[n]["stop"] = 0
            /\ sent'[n]["data"] # sent[n]["data"]
                  => /\ sent[n]["start"] = Count(names, n)
                     /\ sent[n]["stop"] = 0
                     /\ sent'[n]["stop"] = 0
            /\ sent'[n]["stop"] # sent[n]["stop"]
                  => /\ sent[n]["stop"] = 0
                     /\ sent'[n]["data"] = sent[n]["data"]
                     /\ sent[n]["start"] = Count(names, n)]_vars

\* A run without export whose two input variables read the same resource
\* has sent two starts, two data per row and two stops on its name.
C5_Witness ==
    /\ names = <<"a", "a">>
    /\ ~exporting
    /\ Closed
    /\ Len(captured) >= 1
    /\ sent["a"]["start"] = 2
    /\ sent["a"]["data"] = 2 * Len(captured)
    /\ sent["a"]["stop"] = 2

\* C6: after a write failure on item k the abort is fatal: the run thread's
\* next phase is end, no resource is written or read again, no row is added
\* to the k rows captured before, and once the file is closed it holds them.
C6_WriteFailureIsFatal ==
    hist.fail = "write" =>
        /\ aborting /\ abort_fatal
        /\ pc["run"] = "loop" => EffectivePhase = "end"
        /\ hist.writes = hist.fail_writes
        /\ hist.reads = hist.fail_reads
        /\ Len(captured) = hist.fail_at
        /\ pc["run"] \notin {"data_callback", "returned"}
        /\ (exporting /\ Closed) => (export_file = "closed" /\ sink = captured)

\* A write failed after at least one item, and the run was closed with the
\* rows of the items before it in the file.
C6_Witness ==
    /\ hist.fail = "write"
    /\ hist.fail_at >= 1
    /\ exporting
    /\ pc["run"] = "done"
    /\ Len(sink) = hist.fail_at

\* C7: after a read failure on item k the abort is not fatal: the run thread
\* unwinds through ramp_down and end, the read is not tried again, no row is
\* added to the k rows captured before, and once the file is closed it holds
\* them.
C7_ReadFailureAborts ==
    hist.fail = "read" =>
        /\ aborting /\ ~abort_fatal
        /\ pc["run"] = "loop" => EffectivePhase \in {"ramp_down", "end"}
        /\ hist.reads = hist.fail_reads
        /\ Len(captured) = hist.fail_at
        /\ pc["run"] \notin {"data_callback", "returned"}
        /\ (exporting /\ Closed) => (export_file = "closed" /\ sink = captured)

\* A read failed after at least one item, and the run was closed with the
\* rows of the items before it in the file.
C7_Witness ==
    /\ hist.fail = "read"
    /\ hist.fail_at >= 1
    /\ exporting
    /\ pc["run"] = "done"
    /\ Len(sink) = hist.fail_at

\* A non-continuous run ended before the next phase had found the iteration
\* exhausted.
Aborted == Closed /\ ~continuous /\ item < num_items

\* C8 as stated: an aborted non-continuous run has captured fewer than
\* num_items rows.
C8_AbortedRowsBelowNumItems == Aborted => Len(captured) < num_items

\* C8, amended: a non-continuous run that was not aborted has captured
\* num_items rows; an aborted one has captured the rows of the items
\* completed when the abort was requested, at most num_items of them.
C8_RowCount ==
    /\ (Closed /\ ~continuous /\ item = num_items) => Len(captured) = num_items
    /\ Aborted =>
          /\ aborting
          /\ Len(captured) = hist.abort_at
          /\ Len(captured) <= num_items
          /\ hist.fail # "none" => Len(captured) < num_items
    /\ ~continuous => Len(captured) <= num_items

\* A run of three items was aborted by the user after its second item.
C8_Witness ==
    /\ Aborted
    /\ num_items = 3
    /\ hist.user_abort
    /\ Len(captured) = 2

\* A row without its time stamp.
RowValues(r) == SubSeq(r, 2, Len(r))

\* C9: whatever pauses happened, the k-th row holds the values of the
\* k-th item and its measurements, and a non-continuous run in which no
\* abort was confirmed and no resource failed ends with num_items rows.
\* The time stamps are left out of the comparison.
C9_PauseKeepsRows ==
    /\ \A k \in 1..Len(captured) :
          RowValues(captured[k]) = RowValues(Row(0, (k - 1) % num_items, names))
    /\ (Closed /\ ~continuous /\ ~hist.user_abort /\ hist.fail = "none")
          => Len(captured) = num_items

\* A run of three items was paused and resumed twice and has ended.
C9_Witness ==
    /\ Closed
    /\ ~continuous
    /\ num_items = 3
    /\ hist.pauses = 2
    /\ ~hist.user_abort
    /\ hist.fail = "none"
    /\ Len(captured) = 3

\* C10: an end() called by the cancel path on a run that has ended or has
\* not entered its first phase returns and changes nothing: the close, the
\* stall and the two wx.CallAfter calls happen once per run at most.
C10_EndAgainIsNoOp ==
    /\ [](/\ hist.closes <= 1
          /\ hist.posts <= 1
          /\ pc["abort"] \notin {"close_callback", "stall", "post"})
    /\ [][cancel_end =>
            /\ pc' = [pc EXCEPT !["abort"] = "returned"]
            /\ UNCHANGED <<panel_vars, config_vars, export_vars, sent, sweep_vars,
                           dialog_vars, clock, captured, hist>>]_vars

\* The cancel path called end() after the run thread's end had closed the
\* run and posted its two wx.CallAfter calls.
C10_Witness ==
    /\ pc["abort"] = "returned"
    /\ pc["run"] = "done"
    /\ ended
    /\ hist.closes = 1
    /\ hist.posts = 1

\* C11: a call of OnBeginCapture that found no enabled output variable, a
\* missing, unwritable or unreadable resource, or, with export enabled, no
\* directory, a path that is no directory or an existing file, changes
\* nothing but the start button: nothing is launched, no thread and no
\* timer runs, no 'data_capture.start' was sent, no file is open or written,
\* capture_dialogs is what it was.
C11_Failure(p) ==
    \/ ~p.outputs
    \/ "missing" \in p.resources
    \/ "unwritable" \in p.resources
    \/ "unreadable" \in p.resources
    \/ p.export_enabled /\ p.dir = ""
    \/ p.export_enabled /\ p.dir = "file"
    \/ p.export_enabled /\ p.exists

C11_FailedPreflightLaunchesNothing ==
    /\ [](C11_Failure(hist.preflight) =>
            /\ ~launched
            /\ capture_dialogs = 0
            /\ pc = [t \in Threads |-> "idle"]
            /\ ~timer
            /\ sent = NoSent
            /\ export_file = "none"
            /\ sink = << >>
            /\ current_f = "None")
    /\ [][OnBeginCapture /\ C11_Failure(hist'.preflight) =>
            UNCHANGED <<capture_dialogs, config_vars, export_vars, sent,
                        sweep_vars, pc, dialog_vars, clock, captured>>]_vars

\* A call with export enabled found the file of this second in the chosen
\* directory, and returned.
C11_Witness ==
    /\ hist.preflight.export_enabled
    /\ hist.preflight.dir = "dir"
    /\ hist.preflight.exists
    /\ hist.preflight.outputs
    /\ hist.preflight.resources = {}
    /\ ~start_button
    /\ ~launched

\* The run thread is between two phases, or waits there.
AtGate == launched /\ pc["run"] \in {"loop", "wait", "woken"}

\* The run thread has left the loop of SweepController.run.
PastLoop == pc["run"] \in {"end", "close_callback", "stall", "post", "done"}

\* C12: while paused is set the run thread enters no phase, so no resource
\* is written or read and no row is made; paused is set by OnTimer only and
\* cleared only by an answer to the prompt; a run thread that waits on the
\* pause condition waits only while paused is set (resume clears and
\* notifies in one step under pause_lock, so no wake-up is missed); and
\* whenever paused is clear the run thread goes on from its gate to the end
\* of the run, up to the next pause (or, in a continuous run, up to the lap
\* bound of the model).
C12_PauseHandshake ==
    /\ [][paused =>
            /\ current_f' = current_f
            /\ item' = item
            /\ hist'.writes = hist.writes
            /\ hist'.reads = hist.reads
            /\ captured' = captured]_vars
    /\ [][(paused /\ ~paused') => (resume \/ abort_thread)]_vars
    /\ [][(~paused /\ paused') => OnTimer]_vars
    /\ [](pc["run"] = "wait" => paused)
    /\ [][resume => (~paused' /\ pc'["run"] # "wait")]_vars
    /\ ((AtGate /\ ~paused) ~>
            (paused \/ PastLoop \/ (continuous /\ lap = MaxLaps)))

\* The run thread waited on the pause condition, the user answered
\* 'resume', and the thread was woken with paused clear.
C12_Witness ==
    /\ pc["run"] = "woken"
    /\ ~paused
    /\ ~aborting
    /\ cancel_button
    /\ hist.pauses >= 1
    /\ 0 <= item /\ item < num_items

C14_NoCompletionSignalBeforeStall ==
    (\/ destroyed
     \/ hist.posts >= 1
     \/ \E n \in ResourceNames : sent[n]["stop"] > 0)
        => clock >= sweep_start_time + stall_time

\* C14, amended: timer.Stop and Destroy are posted, and so run, no earlier
\* than sweep_start_time + stall_time; close_callback - the final flush,
\* the close of the file and the 'data_capture.stop' of every input
\* variable - has returned before end starts to sleep and takes no time of
\* its own, so 'data_capture.stop' may come before stall_time has passed.
C14_StallBeforeCompletion ==
    /\ [](hist.posts >= 1 => clock >= sweep_start_time + stall_time)
    /\ []((destroyed \/ call_after # << >>) => hist.posts >= 1)
    /\ [][CallAfter => clock >= sweep_start_time + stall_time]_vars
    /\ [](\A t \in Threads :
            pc[t] \in {"stall", "post"} =>
                /\ exporting => (export_file = "closed" /\ sink = captured)
                /\ \A n \in ResourceNames : sent[n]["stop"] = Count(names, n))
    /\ [][(\E t \in Threads : close_callback(t)) => clock' = clock]_vars

\* A run of one item lasted one dwell: its file was closed and its
\* 'data_capture.stop' sent a second after the start, end slept for the
\* second that was missing, and the dialog was destroyed after that.
C14_Witness ==
    /\ destroyed
    /\ ~timer
    /\ pc["run"] = "done"
    /\ exporting
    /\ names # << >>
    /\ Len(captured) = 1
    /\ captured[1][1] < sweep_start_time + stall_time
    /\ clock = sweep_start_time + stall_time
    /\ sent["a"]["stop"] >= 1

\* C15: a continuous run enters ramp_down or end only after an abort was
\* requested; the next phase that finds a lap exhausted counts the lap and
\* returns next, with every row of the laps so far captured; a run
\* closed after two full laps, with no item of a third begun, has captured
\* 2 * num_items rows; and the time stamps of the rows increase.
C15_ContinuousLaps ==
    /\ []((continuous /\ (current_f \in {"ramp_down", "end"} \/ PastLoop))
            => aborting)
    /\ [][(continuous /\ lap' # lap) =>
            /\ lap' = lap + 1
            /\ item = num_items - 1
            /\ item' = -1
            /\ current_f' = "next"
            /\ next_f' = "next"
            /\ ~aborting
            /\ Len(captured) = lap' * num_items]_vars
    /\ [](continuous =>
            /\ item < num_items
            /\ lap * num_items <= Len(captured)
            /\ Len(captured) <= lap * num_items + item + 1)
    /\ []((continuous /\ Closed /\ lap = 2 /\ item = -1)
            => Len(captured) = 2 * num_items)
    /\ [](\A k \in 1..(Len(captured) - 1) : captured[k][1] < captured[k + 1][1])

\* A continuous run of three items was aborted by the user after its second
\* lap and closed with six rows.
C15_Witness ==
    /\ continuous
    /\ num_items = 3
    /\ lap = 2
    /\ item = -1
    /\ hist.user_abort
    /\ hist.fail = "none"
    /\ Closed
    /\ Len(captured) = 6
    /\ captured[6][1] > captured[1][1]

\* The transitions of the phase table: the order of the phases, the restart
\* of a continuous run, and the way out through ramp_down and end.
PhaseTable ==
    {<<"None", "init">>, <<"init", "next">>, <<"next", "transition">>,
     <<"transition", "write">>, <<"write", "dwell">>, <<"dwell", "read">>,
     <<"read", "next">>, <<"next", "next">>, <<"ramp_down", "end">>}
    \cup {<<f, "ramp_down">> : f \in Phases \ {"ramp_down", "end"}}
    \cup {<<f, "end">> : f \in Phases \ {"end"}}

\* C16: every change of current_f (and every re-entry of next) is a
\* transition of the phase table; next is entered twice in a row by a
\* continuous run only; write, dwell and read are entered in this order for
\* one and the same item, the read right after the dwell and the dwell
\* right after the write; nothing follows end; a row is made only by the
\* step that enters the read phase, as that phase's successful outcome, with
\* no write or read having failed before.
C16_PhaseOrder ==
    /\ [][(current_f' # current_f \/ next_f' # next_f \/ item' # item) =>
            \/ current_f' = current_f
            \/ <<current_f, current_f'>> \in PhaseTable]_vars
    /\ [][(current_f = "next" /\ current_f' = "next" /\ item' # item)
            => continuous]_vars
    /\ [][(current_f' = "read" /\ current_f # "read")
            => (current_f = "dwell" /\ item' = item)]_vars
    /\ [][(current_f' = "dwell" /\ current_f # "dwell")
            => (current_f = "write" /\ item' = item)]_vars
    /\ [][(current_f' = "write" /\ current_f # "write")
            => (current_f = "transition" /\ item' = item)]_vars
    /\ [][item' # item => current_f' = "next"]_vars
    /\ [][current_f = "end" => (current_f' = "end" /\ item' = item)]_vars
    /\ [][captured' # captured =>
            /\ current_f = "dwell"
            /\ current_f' = "read"
            /\ captured' = Append(captured, Row(clock, item, names))
            /\ hist'.reads = hist.reads + 1
            /\ hist'.fail = "none"]_vars

\* A run of two items went through all its phases and both rows, unwound
\* through ramp_down and has ended.
C16_Witness ==
    /\ current_f = "end"
    /\ ~continuous
    /\ ~aborting
    /\ num_items = 2
    /\ item = 2
    /\ hist.writes = 3
    /\ hist.reads = 2
    /\ Len(captured) = 2
    /\ pc["run"] = "end"

\* The items of the current lap whose row was made.
DoneInLap == Len(captured) - lap * num_items

\* C17: item is -1 until the run starts; it changes only when the next
\* phase is entered, by one (or back to -1 when a continuous run starts a
\* lap over), so that it counts the cycles of the lap that were completed
\* (the one in progress not yet); it stays within -1..num_items, below
\* num_items in a continuous run; num_items never changes; and every poll
\* that shows the progress sets the gauge to item, within the gauge's range
\* num_items, and the percent label to int(100 * item / num_items), which
\* is at most 100.
C17_ProgressWithinRange ==
    /\ [](current_f = "None" => item = -1)
    /\ [][item' # item =>
            /\ current_f' = "next"
            /\ \/ item' = item + 1
               \/ continuous /\ item = num_items - 1 /\ item' = -1]_vars
    /\ [](/\ item = -1 => DoneInLap = 0
          /\ item >= 0 => DoneInLap \in {item, item + 1})
    /\ [](/\ -1 <= item
          /\ item <= num_items
          /\ continuous => item < num_items)
    /\ [][num_items' = num_items]_vars
    /\ [](/\ display.progress_bar \in 0..progress_bar_range(num_items)
          /\ display.progress_percent \in -1..100)
    /\ [][(OnTimer /\ item >= 0) =>
            /\ display'.progress_bar = item
            /\ display'.progress_bar <= num_items
            /\ display'.progress_percent = (100 * item) \div num_items
            /\ display'.progress_percent <= 100]_vars

\* A poll found a run of two items with its iteration exhausted and has set
\* the gauge to 2 of 2 and the label to 100%.
C17_Witness ==
    /\ ~continuous
    /\ num_items = 2
    /\ item = 2
    /\ display.progress_bar = 2
    /\ display.progress_percent = 100
    /\ display.status_message_output = "next"

\* C18: a poll of a run that is not continuous and whose item is at least 1
\* sets the remaining-time label to elapsed / (item / num_items) - elapsed,
\* in whole seconds, from the elapsed time this poll has just brought up to
\* date; no other poll touches the label, so a continuous run never shows
\* an estimate and no run shows one before item is 1 and a row was made;
\* the elapsed time never goes down and an estimate shown is not negative.
C18_RemainingTime ==
    /\ [][OnTimer =>
            IF ~continuous /\ item >= 1
              THEN display'.remaining_time_output =
                     ((display'.elapsed_time * num_items) \div item
                          - display'.elapsed_time) \div 1000000
              ELSE display'.remaining_time_output = display.remaining_time_output]_vars
    /\ [][display'.remaining_time_output # display.remaining_time_output
            => OnTimer]_vars
    /\ [](continuous => display.remaining_time_output = -1)
    /\ [](display.remaining_time_output # -1 =>
            /\ item >= 1
            /\ Len(captured) >= 1
            /\ display.remaining_time_output >= 0)
    /\ [](display.elapsed_time >= 0)
    /\ [][display'.elapsed_time >= display.elapsed_time]_vars

\* The second poll of a run of two items came one second after the first,
\* with the first item done: one second is left.
C18_Witness ==
    /\ ~continuous
    /\ num_items = 2
    /\ item = 1
    /\ display.elapsed_time = 1000000
    /\ display.elapsed_time_output = 1
    /\ display.remaining_time_output = 1

\* C19: a prompt is raised only by a poll that finds cancelling set and no
\* prompt pending; while a prompt is pending the timer is stopped, the
\* cancel button is disabled and cancelling and paused are set; cancelling
\* is set only by an OnCancel that finds the button enabled, and disables
\* it; the button of a launched run is enabled again by the answer
\* 'resume' only; either answer closes the prompt, clears cancelling and
\* restarts the timer; and the answer 'abort' is given once per run at
\* most, starting one thread.
C19_OnePromptOneAbort ==
    /\ [][(~prompt /\ prompt') => (OnTimer /\ cancelling /\ timer)]_vars
    /\ [][(OnTimer /\ cancelling) => ~prompt]_vars
    /\ [](prompt => (~timer /\ ~cancel_button /\ cancelling /\ paused))
    /\ [](cancelling => ~cancel_button)
    /\ [][(~cancelling /\ cancelling') =>
            (OnCancel /\ cancel_button /\ ~cancel_button')]_vars
    /\ [][(OnCancel /\ ~cancel_button) => UNCHANGED vars]_vars
    /\ [][(launched /\ ~cancel_button /\ cancel_button') => resume]_vars
    /\ [][(abort \/ resume) =>
            (prompt /\ ~prompt' /\ ~cancelling' /\ ~timer /\ timer')]_vars
    /\ [][abort =>
            /\ ~hist.user_abort
            /\ pc["abort"] = "idle"
            /\ pc'["abort"] = "abort"
            /\ ~cancel_button']_vars
    /\ [](hist.user_abort => (~cancel_button /\ ~cancelling /\ ~prompt))

\* The user cancelled twice: the first prompt was answered 'resume', the
\* second 'abort'; the timer runs again and the button stays disabled.
C19_Witness ==
    /\ hist.pauses = 2
    /\ hist.cancels = 2
    /\ hist.user_abort
    /\ pc["abort"] = "abort"
    /\ ~prompt
    /\ ~cancelling
    /\ ~cancel_button
    /\ timer

\* The dialogs that were made and whose close_callback has not run.
OpenDialogs == {d \in Dialogs : dialogs[d].at \in {"open", "store"}}

\* No thread is between the read and the write of capture_dialogs.
NoUpdateUnderWay ==
    /\ gui_thread.at = "idle"
    /\ \A d \in Dialogs : dialogs[d].at # "store"

\* C20: capture_dialogs is never negative and, whenever no update of it is
\* under way, it is the number of dialogs that were made and whose
\* close_callback has not run.
C20_CountsOpenDialogs ==
    /\ capture_dialogs >= 0
    /\ NoUpdateUnderWay => capture_dialogs = Cardinality(OpenDialogs)

====
